---- MODULE Spec2Model ----
(***************************************************************************)
(* basic_query.py: analyze_video_with_chat, the orchestrator that asks a   *)
(* remote model for a section breakdown of a video, prints the result      *)
(* record, writes it to data.json as indented JSON and returns it; any     *)
(* Exception raised inside its try block is printed and turned into an     *)
(* error record.                                                           *)
(*                                                                         *)
(* Text is modelled character by character: a Python str is a sequence of  *)
(* one-character tokens, so that the JSON written to data.json can be      *)
(* parsed back and compared with the record that was returned.             *)
(***************************************************************************)
EXTENDS Integers, Sequences, FiniteSets, TLC

\* ------------------------------------------------------------ characters
QUOTE == "\""
BSL == "\\"
NL == "\n"
SP == " "
\* One non-ASCII character (U+00E9), which json.dump writes as é.
EACUTE == "U+00E9"
\* The byte a sparse write leaves in a hole of the file.
NUL == "U+0000"

\* ------------------------------------------------------------ Python values
PyNone == [t |-> "none", s |-> <<>>]
PyStr(s) == [t |-> "str", s |-> s]

\* An exception object: its class and its args; no exception: NoExc.
Exc(cls, args) == [cls |-> cls, args |-> args]
NoExc == Exc("", <<>>)

\* str(e) of a BaseException with at most one str argument.
PyStrOfExc(e) == IF Len(e.args) = 0 THEN <<>> ELSE e.args[1]

\* ------------------------------------------------------------ literals of the source
K_section_breakdown ==
    <<"s","e","c","t","i","o","n","_","b","r","e","a","k","d","o","w","n">>
K_youtube_url == <<"y","o","u","t","u","b","e","_","u","r","l">>
K_model_name == <<"m","o","d","e","l","_","n","a","m","e">>
K_error == <<"e","r","r","o","r">>
\* 'models/gemini-2.0-flash'
ModelName ==
    <<"m","o","d","e","l","s","/","g","e","m","i","n","i","-","2",".","0","-",
      "f","l","a","s","h">>
\* indent=4 of json.dump
Indent == 4

\* ------------------------------------------------------------ dicts
\* A dict is the sequence of its <<key, value>> items in insertion order.
\* AsMapping forgets the order (dict equality in Python ignores it); a later
\* item with the same key wins.
RECURSIVE LastValue(_, _, _)
LastValue(d, k, i) ==
    IF i = 0 THEN PyNone
    ELSE IF d[i][1] = k THEN d[i][2] ELSE LastValue(d, k, i - 1)

Keys(d) == {d[i][1] : i \in DOMAIN d}
AsMapping(d) == [k \in Keys(d) |-> LastValue(d, k, Len(d))]

\* ------------------------------------------------------------ json.dump
\* json.encoder with ensure_ascii=True.
EscapeChar(c) ==
    CASE c = QUOTE -> <<BSL, QUOTE>>
      [] c = BSL -> <<BSL, BSL>>
      [] c = NL -> <<BSL, "n">>
      [] c = EACUTE -> <<BSL, "u", "0", "0", "e", "9">>
      [] OTHER -> <<c>>

RECURSIVE EscapeSeq(_)
EscapeSeq(s) ==
    IF s = <<>> THEN <<>> ELSE EscapeChar(Head(s)) \o EscapeSeq(Tail(s))

EncodeStr(s) == <<QUOTE>> \o EscapeSeq(s) \o <<QUOTE>>

EncodeValue(v) ==
    IF v.t = "none" THEN <<"n", "u", "l", "l">> ELSE EncodeStr(v.s)

Spaces(n) == [i \in 1..n |-> SP]

\* The items of a dict from item i on, each on a line of its own.
RECURSIVE EncodeItems(_, _)
EncodeItems(d, i) ==
    IF i > Len(d) THEN <<>>
    ELSE <<NL>> \o Spaces(Indent) \o EncodeStr(d[i][1]) \o <<":", SP>>
         \o EncodeValue(d[i][2])
         \o (IF i < Len(d) THEN <<",">> ELSE <<>>)
         \o EncodeItems(d, i + 1)

\* json_file.write(str(d)) in place of json.dump: Python's quotes, not JSON's.
ReprText(d) ==
    LET t == IF d = <<>> THEN <<"{", "}">>
             ELSE <<"{">> \o EncodeItems(d, 1) \o <<NL, "}">>
    IN [i \in DOMAIN t |-> IF t[i] = QUOTE THEN "'" ELSE t[i]]

\* json.dump(d, fp, indent=4): the text handed to fp.write, chunk by chunk.
Dumps(d) ==
    IF d = <<>> THEN <<"{", "}">>
    ELSE <<"{">> \o EncodeItems(d, 1) \o <<NL, "}">>

\* ------------------------------------------------------------ json.load
\* The reader of data.json (the orchestrator itself never reads the file).
\* What json.load makes of a text: [ok, val, pos]; ok = FALSE is a
\* JSONDecodeError. Values are objects of strings and nulls, which is all
\* json.dump writes here; any other text is rejected.
Fail == [ok |-> FALSE, val |-> <<>>, pos |-> 0]
Good(v, p) == [ok |-> TRUE, val |-> v, pos |-> p]

IsWs(c) == c \in {SP, NL, "\t", "\r"}

RECURSIVE SkipWs(_, _)
SkipWs(s, i) == IF i <= Len(s) /\ IsWs(s[i]) THEN SkipWs(s, i + 1) ELSE i

HexDigits == {"0","1","2","3","4","5","6","7","8","9","a","b","c","d","e","f"}

\* \uXXXX of the characters the model writes.
DecodeU(h) ==
    IF h = <<"0", "0", "e", "9">> THEN <<EACUTE>>
    ELSE IF h = <<"0", "0", "0", "0">> THEN <<NUL>>
    ELSE <<"U+" \o h[1] \o h[2] \o h[3] \o h[4]>>

\* py_scanstring from the character after the opening quote.
RECURSIVE ScanString(_, _, _)
ScanString(s, i, acc) ==
    IF i > Len(s) THEN Fail
    ELSE IF s[i] = QUOTE THEN Good(acc, i + 1)
    ELSE IF s[i] \in {NL, NUL, "\t", "\r"} THEN Fail
    ELSE IF s[i] # BSL THEN ScanString(s, i + 1, Append(acc, s[i]))
    ELSE IF i + 1 > Len(s) THEN Fail
    ELSE LET c == s[i + 1] IN
         CASE c = QUOTE -> ScanString(s, i + 2, Append(acc, QUOTE))
           [] c = BSL -> ScanString(s, i + 2, Append(acc, BSL))
           [] c = "/" -> ScanString(s, i + 2, Append(acc, "/"))
           [] c = "n" -> ScanString(s, i + 2, Append(acc, NL))
           [] c = "t" -> ScanString(s, i + 2, Append(acc, "\t"))
           [] c = "r" -> ScanString(s, i + 2, Append(acc, "\r"))
           [] c = "u" ->
                IF i + 5 <= Len(s) /\ \A j \in 2..5 : s[i + j] \in HexDigits
                THEN ScanString(s, i + 6,
                                acc \o DecodeU(SubSeq(s, i + 2, i + 5)))
                ELSE Fail
           [] OTHER -> Fail

ParseValue(s, i) ==
    IF i > Len(s) THEN Fail
    ELSE IF s[i] = QUOTE THEN
        LET r == ScanString(s, i + 1, <<>>) IN
        IF r.ok THEN Good(PyStr(r.val), r.pos) ELSE Fail
    ELSE IF i + 3 <= Len(s) /\ SubSeq(s, i, i + 3) = <<"n", "u", "l", "l">>
        THEN Good(PyNone, i + 4)
    ELSE Fail

\* JSONObject after the opening brace and whitespace: the items from i on.
RECURSIVE ParseItems(_, _, _)
ParseItems(s, i, acc) ==
    IF i > Len(s) \/ s[i] # QUOTE THEN Fail
    ELSE LET k == ScanString(s, i + 1, <<>>) IN
         IF ~k.ok THEN Fail
         ELSE LET c == SkipWs(s, k.pos) IN
              IF c > Len(s) \/ s[c] # ":" THEN Fail
              ELSE LET v == ParseValue(s, SkipWs(s, c + 1)) IN
                   IF ~v.ok THEN Fail
                   ELSE LET e == SkipWs(s, v.pos)
                            items == Append(acc, <<k.val, v.val>>)
                        IN IF e > Len(s) THEN Fail
                           ELSE IF s[e] = "}" THEN Good(items, e + 1)
                           ELSE IF s[e] = "," THEN
                               ParseItems(s, SkipWs(s, e + 1), items)
                           ELSE Fail

ParseObject(s, i) ==
    IF i > Len(s) \/ s[i] # "{" THEN Fail
    ELSE LET j == SkipWs(s, i + 1) IN
         IF j <= Len(s) /\ s[j] = "}" THEN Good(<<>>, j + 1)
         ELSE ParseItems(s, j, <<>>)

\* json.load of a whole text: one object and nothing after it.
Loads(s) ==
    LET r == ParseObject(s, SkipWs(s, 1)) IN
    IF r.ok /\ SkipWs(s, r.pos) = Len(s) + 1 THEN r ELSE Fail


\* ------------------------------------------------------------ inputs and bounds
\* Invocations one after the other (Spec).
MaxRuns == 2
\* Characters the buffered text file hands to the operating system in one
\* write; the last block goes out when the with statement closes the file.
BlockSize == 64

Procs == {1, 2}

\* Video references: the entry point's "" and one with a path.
URLs == {<<>>, <<"h", "/">>}
\* What response.text can be: a str (with characters JSON must escape) or None.
Responses == {PyNone, PyStr(<<"a">>), PyStr(<<QUOTE, BSL, NL, "n", EACUTE>>)}
\* What the remote call can raise. Every exception of the model is an instance
\* of Exception, the class the except clause of the orchestrator names.
RemoteErrors == {Exc("ClientError", <<<<"q">>>>), Exc("Exception", <<>>)}
\* What the other steps can raise.
ClientInitError == Exc("ValueError", <<<<"k">>>>)
PrintError == Exc("UnicodeEncodeError", <<<<"p">>>>)
OpenError == Exc("PermissionError", <<<<"d">>>>)
WriteError == Exc("OSError", <<<<"f">>>>)

\* A file already in the working directory before the first invocation.
OldContent == <<"o", "l", "d">>

\* ------------------------------------------------------------ the file system
Absent == [exists |-> FALSE, data |-> <<>>]
Present(data) == [exists |-> TRUE, data |-> data]

\* open("data.json", mode) for the mode that does not truncate ("r+").
OpenKeep(f) == Present(f.data)

\* open("data.json", "w"): the file is created or truncated.
OpenW(f) == Present(<<>>)

\* write(2) of block at offset pos of a file holding data.
WriteAt(data, pos, block) ==
    LET padded == IF pos > Len(data)
                  THEN data \o [i \in 1..(pos - Len(data)) |-> NUL]
                  ELSE data
    IN SubSeq(padded, 1, pos) \o block
       \o SubSeq(padded, pos + Len(block) + 1, Len(padded))

\* ------------------------------------------------------------ the orchestrator's pieces
\* initialize_gemini_client: the fixed model identifier.
InitializeGeminiClientModel == ModelName

\* The request of generate_video_summary (not called by the orchestrator).
SummaryRequest(url, model) ==
    [fn |-> "generate_video_summary", model |-> model, file_uri |-> url]

\* The request generate_section_breakdown sends.
SectionBreakdownRequest(url, model) ==
    [fn |-> "generate_section_breakdown", model |-> model, file_uri |-> url]

\* The record with the commented-out metadata item put back.
AnalysisResultsWithMetadata(section_breakdown, url, model) ==
    << <<<<"m","e","t","a","d","a","t","a">>, PyStr(url)>>,
       <<K_section_breakdown, section_breakdown>>,
       <<K_youtube_url, PyStr(url)>>,
       <<K_model_name, PyStr(model)>> >>

\* analysis_results = {...}
AnalysisResults(section_breakdown, url, model) ==
    << <<K_section_breakdown, section_breakdown>>,
       <<K_youtube_url, PyStr(url)>>,
       <<K_model_name, PyStr(model)>> >>

\* {"error": str(e)}
ErrorRecord(e) == << <<K_error, PyStr(PyStrOfExc(e))>> >>

\* What an invocation hands its caller: a returned dict or a raised exception.
NoResult == [kind |-> "none", val |-> <<>>, exc |-> NoExc]
Returned(d) == [kind |-> "return", val |-> d, exc |-> NoExc]
Raised(e) == [kind |-> "raise", val |-> <<>>, exc |-> e]

\* The exit status of `python basic_query.py` for what the call handed back.
ExitCode(r) == IF r.kind = "raise" THEN 1 ELSE 0

\* Lines on standard output.
RecordLine(d) == [kind |-> "record", rec |-> d, msg |-> <<>>]
ErrorLine(e) == [kind |-> "error", rec |-> <<>>, msg |-> PyStrOfExc(e)]

\* ------------------------------------------------------------ state
VARIABLES
    file,      \* data.json: [exists, data]
    pc,        \* per process: where its invocation stands
    frame,     \* per process: the locals of analyze_video_with_chat
    result,    \* per process: what the last invocation handed its caller
    hist,      \* per process: what the current invocation did so far
    writer,    \* the invocation that opened data.json last: its record, and
               \* whether its write went through
    runs       \* per process: invocations started

vars == <<file, pc, frame, result, hist, writer, runs>>

NoFrame ==
    [youtube_url |-> <<>>, model_name |-> <<>>, section_breakdown |-> PyNone,
     analysis_results |-> <<>>, e |-> NoExc, pending |-> <<>>, pos |-> 0]

NoRemote == [kind |-> "none", val |-> PyNone, exc |-> NoExc]

\* calls: the remote requests sent; remote: how the remote call ended;
\* stdout: the lines printed; fileBefore: data.json when the invocation began;
\* raisedAt: the step before or inside the try statement that raised;
\* opened: whether the invocation opened data.json.
NoHist(f) ==
    [calls |-> <<>>, remote |-> NoRemote, stdout |-> <<>>, fileBefore |-> f,
     raisedAt |-> "", opened |-> FALSE]

Init ==
    /\ file \in {Absent, Present(OldContent)}
    /\ pc = [p \in Procs |-> "idle"]
    /\ frame = [p \in Procs |-> NoFrame]
    /\ result = [p \in Procs |-> NoResult]
    /\ hist = [p \in Procs |-> NoHist(file)]
    /\ writer = [opened |-> FALSE, complete |-> FALSE, rec |-> <<>>]
    /\ runs = [p \in Procs |-> 0]

\* ------------------------------------------------------------ steps
\* A caller invokes analyze_video_with_chat(u).
Start(p) ==
    /\ pc[p] \in {"idle", "done"}
    /\ \E u \in URLs :
         frame' = [frame EXCEPT ![p] = [NoFrame EXCEPT !.youtube_url = u]]
    /\ hist' = [hist EXCEPT ![p] = NoHist(file)]
    /\ result' = [result EXCEPT ![p] = NoResult]
    /\ pc' = [pc EXCEPT ![p] = "init"]
    /\ runs' = [runs EXCEPT ![p] = @ + 1]
    /\ UNCHANGED <<file, writer>>

\* client, model_name = initialize_gemini_client()
InitClientOk(p) ==
    /\ pc[p] = "init"
    /\ frame' = [frame EXCEPT ![p].model_name = InitializeGeminiClientModel]
    /\ pc' = [pc EXCEPT ![p] = "call"]
    /\ UNCHANGED <<file, result, hist, writer, runs>>

\* genai.Client(...) raises: the call stands before the try statement, so the
\* exception leaves analyze_video_with_chat.
InitClientRaises(p) ==
    /\ pc[p] = "init"
    /\ result' = [result EXCEPT ![p] = Raised(ClientInitError)]
    /\ hist' = [hist EXCEPT ![p].raisedAt = "init"]
    /\ pc' = [pc EXCEPT ![p] = "done"]
    /\ UNCHANGED <<file, frame, writer, runs>>

\* section_breakdown = generate_section_breakdown(...) returns response.text;
\* analysis_results is built from it.
CallReturns(p) ==
    /\ pc[p] = "call"
    /\ \E r \in Responses :
         /\ frame' = [frame EXCEPT
                ![p].section_breakdown = r,
                ![p].analysis_results =
                    AnalysisResults(r, frame[p].youtube_url, frame[p].model_name)]
         /\ hist' = [hist EXCEPT
                ![p].calls = Append(@, SectionBreakdownRequest(
                                 frame[p].youtube_url, frame[p].model_name)),
                ![p].remote = [kind |-> "return", val |-> r, exc |-> NoExc]]
    /\ pc' = [pc EXCEPT ![p] = "print"]
    /\ UNCHANGED <<file, result, writer, runs>>

\* client.models.generate_content raises; generate_section_breakdown has no
\* handler, so the exception reaches the except clause of the orchestrator.
CallRaises(p) ==
    /\ pc[p] = "call"
    /\ \E err \in RemoteErrors :
         /\ frame' = [frame EXCEPT ![p].e = err]
         /\ hist' = [hist EXCEPT
                ![p].calls = Append(@, SectionBreakdownRequest(
                                 frame[p].youtube_url, frame[p].model_name)),
                ![p].remote = [kind |-> "raise", val |-> PyNone, exc |-> err],
                ![p].raisedAt = "call"]
    /\ pc' = [pc EXCEPT ![p] = "handler"]
    /\ UNCHANGED <<file, result, writer, runs>>

\* print(analysis_results)
PrintOk(p) ==
    /\ pc[p] = "print"
    /\ hist' = [hist EXCEPT
           ![p].stdout = Append(@, RecordLine(frame[p].analysis_results))]
    /\ pc' = [pc EXCEPT ![p] = "open"]
    /\ UNCHANGED <<file, frame, result, writer, runs>>

PrintRaises(p) ==
    /\ pc[p] = "print"
    /\ frame' = [frame EXCEPT ![p].e = PrintError]
    /\ hist' = [hist EXCEPT ![p].raisedAt = "print"]
    /\ pc' = [pc EXCEPT ![p] = "handler"]
    /\ UNCHANGED <<file, result, writer, runs>>

\* open under an exclusive lock: refused while another invocation holds the
\* file open.
OpenOkLocked(p) ==
    /\ pc[p] = "open"
    /\ \A q \in Procs \ {p} : pc[q] \notin {"dump", "write"}
    /\ file' = OpenW(file)
    /\ frame' = [frame EXCEPT ![p].pos = 0]
    /\ hist' = [hist EXCEPT ![p].opened = TRUE]
    /\ writer' = [opened |-> TRUE, complete |-> FALSE,
                  rec |-> frame[p].analysis_results]
    /\ pc' = [pc EXCEPT ![p] = "dump"]
    /\ UNCHANGED <<result, runs>>

\* open("data.json", "w")
OpenOk(p) ==
    /\ pc[p] = "open"
    /\ file' = OpenW(file)
    /\ frame' = [frame EXCEPT ![p].pos = 0]
    /\ hist' = [hist EXCEPT ![p].opened = TRUE]
    /\ writer' = [opened |-> TRUE, complete |-> FALSE,
                  rec |-> frame[p].analysis_results]
    /\ pc' = [pc EXCEPT ![p] = "dump"]
    /\ UNCHANGED <<result, runs>>

OpenRaises(p) ==
    /\ pc[p] = "open"
    /\ frame' = [frame EXCEPT ![p].e = OpenError]
    /\ hist' = [hist EXCEPT ![p].raisedAt = "open"]
    /\ pc' = [pc EXCEPT ![p] = "handler"]
    /\ UNCHANGED <<file, result, writer, runs>>

\* json.dump(analysis_results, json_file, indent=4): the text enters the
\* file object's buffer.
JsonDump(p) ==
    /\ pc[p] = "dump"
    /\ frame' = [frame EXCEPT ![p].pending = Dumps(frame[p].analysis_results)]
    /\ pc' = [pc EXCEPT ![p] = "write"]
    /\ UNCHANGED <<file, result, hist, writer, runs>>

\* The buffer's next block reaches the file at this descriptor's offset; with
\* the last block the file is closed and analysis_results is returned.
WriteBlock(p) ==
    /\ pc[p] = "write"
    /\ LET n == IF Len(frame[p].pending) < BlockSize
                THEN Len(frame[p].pending) ELSE BlockSize
           block == SubSeq(frame[p].pending, 1, n)
           rest == SubSeq(frame[p].pending, n + 1, Len(frame[p].pending))
       IN /\ file' = Present(WriteAt(file.data, frame[p].pos, block))
          /\ frame' = [frame EXCEPT ![p].pending = rest, ![p].pos = @ + n]
          /\ IF rest = <<>>
             THEN /\ pc' = [pc EXCEPT ![p] = "done"]
                  /\ result' = [result EXCEPT
                         ![p] = Returned(frame[p].analysis_results)]
                  /\ writer' = [writer EXCEPT !.complete = TRUE]
             ELSE UNCHANGED <<pc, result, writer>>
    /\ UNCHANGED <<hist, runs>>

\* A write fails (disk full, quota): the with statement closes the file and
\* the OSError reaches the except clause.
WriteRaises(p) ==
    /\ pc[p] = "write"
    /\ frame' = [frame EXCEPT ![p].e = WriteError, ![p].pending = <<>>]
    /\ hist' = [hist EXCEPT ![p].raisedAt = "write"]
    /\ pc' = [pc EXCEPT ![p] = "handler"]
    /\ UNCHANGED <<file, result, writer, runs>>

\* An except clause that also saves the error record to data.json.
HandlerWritesError(p) ==
    /\ pc[p] = "handler"
    /\ hist' = [hist EXCEPT ![p].stdout = Append(@, ErrorLine(frame[p].e))]
    /\ file' = Present(Dumps(ErrorRecord(frame[p].e)))
    /\ result' = [result EXCEPT ![p] = Returned(ErrorRecord(frame[p].e))]
    /\ pc' = [pc EXCEPT ![p] = "done"]
    /\ UNCHANGED <<frame, writer, runs>>

\* except Exception as e: print(...); return {"error": str(e)}
HandlerOk(p) ==
    /\ pc[p] = "handler"
    /\ hist' = [hist EXCEPT ![p].stdout = Append(@, ErrorLine(frame[p].e))]
    /\ result' = [result EXCEPT ![p] = Returned(ErrorRecord(frame[p].e))]
    /\ pc' = [pc EXCEPT ![p] = "done"]
    /\ UNCHANGED <<file, frame, writer, runs>>

\* The print inside the except clause raises: nothing catches it.
HandlerPrintRaises(p) ==
    /\ pc[p] = "handler"
    /\ result' = [result EXCEPT ![p] = Raised(PrintError)]
    /\ pc' = [pc EXCEPT ![p] = "done"]
    /\ UNCHANGED <<file, frame, hist, writer, runs>>

Step(p) ==
    \/ InitClientOk(p)
    \/ InitClientRaises(p)
    \/ CallReturns(p)
    \/ CallRaises(p)
    \/ PrintOk(p)
    \/ PrintRaises(p)
    \/ OpenOk(p)
    \/ OpenRaises(p)
    \/ JsonDump(p)
    \/ WriteBlock(p)
    \/ WriteRaises(p)
    \/ HandlerOk(p)
    \/ HandlerPrintRaises(p)

\* Invocations one after the other, by one process.
Next ==
    \/ Start(1) /\ runs[1] < MaxRuns
    \/ Step(1)

Spec == Init /\ [][Next]_vars

\* Two processes, each invoking the orchestrator once, with no order between
\* them.
NextConc ==
    \E p \in Procs :
        \/ Start(p) /\ runs[p] = 0
        \/ Step(p)

SpecConc == Init /\ [][NextConc]_vars

\* ------------------------------------------------------------ properties
IsPrefix(a, b) == Len(a) <= Len(b) /\ SubSeq(b, 1, Len(a)) = a

Done(p) == pc[p] = "done"
RemoteReturned(p) == hist[p].remote.kind = "return"
RemoteRaised(p) == hist[p].remote.kind = "raise"
\* The invocation is over and no step of it raised.
Succeeded(p) == Done(p) /\ result[p].kind = "return" /\ hist[p].raisedAt = ""

\* The record has exactly the three keys, with u, r and the model identifier.
IsSuccessRecordOf(d, u, r) ==
    /\ Len(d) = 3
    /\ Keys(d) = {K_section_breakdown, K_youtube_url, K_model_name}
    /\ AsMapping(d)[K_youtube_url] = PyStr(u)
    /\ AsMapping(d)[K_section_breakdown] = r
    /\ AsMapping(d)[K_model_name] = PyStr(InitializeGeminiClientModel)

\* C1 as stated: whenever the remote call of an invocation returned r, the
\* invocation returns the record with exactly the keys section_breakdown,
\* youtube_url and model_name, holding r, u and the fixed model identifier.
C1_Original ==
    \A p \in Procs :
        Done(p) /\ RemoteReturned(p) =>
            /\ result[p].kind = "return"
            /\ IsSuccessRecordOf(result[p].val, frame[p].youtube_url,
                                 hist[p].remote.val)

\* C1 (amended): when the remote call returned r and neither the print nor
\* the opening and writing of data.json raised, the invocation returns the
\* record with exactly the three keys, holding r, u and the fixed model
\* identifier unchanged.
C1_SuccessRecord ==
    \A p \in Procs :
        Done(p) /\ RemoteReturned(p) /\ hist[p].raisedAt = "" =>
            /\ result[p].kind = "return"
            /\ IsSuccessRecordOf(result[p].val, frame[p].youtube_url,
                                 hist[p].remote.val)

\* A run with a path in u and an r full of characters JSON escapes succeeded.
C1_Witness ==
    /\ Succeeded(1)
    /\ frame[1].youtube_url = <<"h", "/">>
    /\ hist[1].remote.val = PyStr(<<QUOTE, BSL, NL, "n", EACUTE>>)

\* C2: when the remote call raised an exception e, the invocation does not
\* raise and returns the record whose only key is error, with value str(e).
C2_ErrorRecord ==
    \A p \in Procs :
        Done(p) /\ RemoteRaised(p) =>
            result[p] = Returned(
                << <<K_error, PyStr(PyStrOfExc(hist[p].remote.exc))>> >>)

\* C3: whichever step of an invocation raises (client initialisation, remote
\* call, print, file write), the invocation returns an error record and the
\* process exits with status 0.
C3_CatchesEverything ==
    \A p \in Procs :
        Done(p) /\ (hist[p].raisedAt # "" \/ result[p].kind = "raise") =>
            /\ result[p].kind = "return"
            /\ Keys(result[p].val) = {K_error}
            /\ ExitCode(result[p]) = 0

\* C4: after an invocation that returned a success record, data.json parses
\* as JSON to a mapping equal to the returned record.
C4_RoundTrip ==
    \A p \in Procs :
        Succeeded(p) =>
            /\ file.exists
            /\ Loads(file.data).ok
            /\ AsMapping(Loads(file.data).val) = AsMapping(result[p].val)

\* The second of two runs succeeded, with an r full of characters JSON
\* escapes and a text written in more than one block.
C4_Witness ==
    /\ Succeeded(1)
    /\ runs[1] = 2
    /\ hist[1].remote.val = PyStr(<<QUOTE, BSL, NL, "n", EACUTE>>)
    /\ Len(file.data) > BlockSize

\* C5 as stated: after any sequence of invocations one after the other,
\* data.json holds the record of the latest invocation that wrote it.
C5_Original ==
    Done(1) /\ writer.opened =>
        /\ Loads(file.data).ok
        /\ AsMapping(Loads(file.data).val) = AsMapping(writer.rec)

\* C5 (amended): invocations one after the other overwrite data.json and never
\* append to it: the file holds nothing of an earlier invocation, its content
\* being a prefix of the serialised record of the latest invocation that
\* opened it, and the whole of it once that invocation's write went through.
C5_Overwrite ==
    writer.opened =>
        /\ file.exists
        /\ IsPrefix(file.data, Dumps(writer.rec))
        /\ (writer.complete => file.data = Dumps(writer.rec))
        /\ (Succeeded(1) /\ hist[1].opened => writer.complete)

\* The second of two runs wrote a record shorter than the text it found.
C5_Witness ==
    /\ Succeeded(1)
    /\ runs[1] = 2
    /\ writer.complete
    /\ Len(hist[1].fileBefore.data) > Len(file.data)
    /\ Len(file.data) > 0

\* C6: when the remote call raised, the invocation does not write data.json:
\* the file is as it was when the invocation began, absent if it was absent.
C6_NoWriteOnRemoteError ==
    \A p \in Procs :
        RemoteRaised(p) => file = hist[p].fileBefore /\ ~hist[p].opened

\* The remote call raised, an error record came back, and data.json, absent
\* before, is still absent.
C6_Witness ==
    /\ Done(1)
    /\ RemoteRaised(1)
    /\ result[1].kind = "return"
    /\ ~file.exists

\* C7: an invocation sends at most one remote request, the section-breakdown
\* request and never the summary or question request; when the call raised,
\* no second request follows and the exception raised is the one the except
\* clause handles.
C7_OneCallNoRetry ==
    \A p \in Procs :
        /\ Len(hist[p].calls) <= 1
        /\ \A i \in DOMAIN hist[p].calls :
             /\ hist[p].calls[i].fn = "generate_section_breakdown"
             /\ hist[p].calls[i].file_uri = frame[p].youtube_url
        /\ (hist[p].remote.kind # "none" => Len(hist[p].calls) = 1)
        /\ (RemoteRaised(p) => frame[p].e = hist[p].remote.exc)
        /\ (RemoteRaised(p) /\ result[p].kind = "return" =>
                result[p].val = ErrorRecord(hist[p].remote.exc))

\* The remote call raised once and its exception is the one in the error
\* record.
C7_Witness ==
    /\ Done(1)
    /\ RemoteRaised(1)
    /\ Len(hist[1].calls) = 1
    /\ result[1] = Returned(ErrorRecord(Exc("ClientError", <<<<"q">>>>)))

\* C8: two invocations at once take no lock on data.json: an invocation that
\* is about to open or to write the file can always do so, whatever the other
\* one is doing with it, and so the content the two leave behind is decided by
\* the order of their truncations and writes: when both have written, each
\* character of data.json is the one either of the two records has there.
C8_NoLocking ==
    /\ \A p \in Procs :
          /\ (pc[p] = "open" => ENABLED OpenOk(p))
          /\ (pc[p] = "write" => ENABLED WriteBlock(p))
    /\ (Succeeded(1) /\ Succeeded(2) =>
          LET d1 == Dumps(result[1].val)
              d2 == Dumps(result[2].val)
          IN /\ Len(file.data) \in {Len(d1), Len(d2)}
             /\ \A i \in DOMAIN file.data :
                  \/ i <= Len(d1) /\ file.data[i] = d1[i]
                  \/ i <= Len(d2) /\ file.data[i] = d2[i])

\* Both invocations returned a success record, and data.json is the record of
\* neither: it does not even parse.
C8_Witness ==
    /\ Succeeded(1)
    /\ Succeeded(2)
    /\ file.data # Dumps(result[1].val)
    /\ file.data # Dumps(result[2].val)
    /\ ~Loads(file.data).ok

\* C9: an invocation that is done ended in one of two terminal states: it
\* returned the success record or it returned an error record.
C9_TwoTerminalStates ==
    \A p \in Procs :
        Done(p) =>
            /\ result[p].kind = "return"
            /\ \/ result[p].val = frame[p].analysis_results
               \/ Keys(result[p].val) = {K_error}

\* C10: the success record is printed before data.json is opened, opening
\* leaves the file empty, and when the write fails the invocation returns an
\* error record although the success record is on standard output and
\* data.json holds an empty or partial text in place of its previous content.
C10_ErrorAfterTruncation ==
    \A p \in {1} :
        /\ (hist[p].opened =>
                hist[p].stdout # <<>>
                /\ hist[p].stdout[1] = RecordLine(frame[p].analysis_results))
        /\ (pc[p] = "dump" => file = Present(<<>>))
        /\ (Done(p) /\ hist[p].raisedAt = "write" =>
                /\ result[p] = Returned(ErrorRecord(WriteError))
                /\ IsPrefix(file.data, Dumps(frame[p].analysis_results))
                /\ file.data # Dumps(frame[p].analysis_results))

\* ------------------------------------------------------------ what holds beside C2, C9 and C10
\* When the print of the except clause succeeds, a remote failure e yields
\* exactly {"error": str(e)}.
ErrorRecordWhenHandlerPrints ==
    \A p \in Procs :
        Done(p) /\ RemoteRaised(p) /\ result[p].kind = "return" =>
            result[p] = Returned(
                << <<K_error, PyStr(PyStrOfExc(hist[p].remote.exc))>> >>)

\* An invocation ends in one of three ways: the success record, an error
\* record, or an exception raised by client initialisation or by the print
\* of the except clause.
ThreeTerminalStates ==
    \A p \in Procs :
        Done(p) =>
            \/ result[p] = Returned(frame[p].analysis_results)
                /\ hist[p].raisedAt = ""
            \/ result[p] = Returned(ErrorRecord(frame[p].e))
                /\ hist[p].raisedAt \in {"call", "print", "open", "write"}
            \/ result[p] = Raised(ClientInitError) /\ hist[p].raisedAt = "init"
            \/ result[p] = Raised(PrintError)
                /\ hist[p].raisedAt \in {"call", "print", "open", "write"}

\* C10 with the case of a raising except clause set apart.
ErrorAfterTruncationWhenHandlerPrints ==
    \A p \in {1} :
        /\ (hist[p].opened =>
                hist[p].stdout # <<>>
                /\ hist[p].stdout[1] = RecordLine(frame[p].analysis_results))
        /\ (pc[p] = "dump" => file = Present(<<>>))
        /\ (Done(p) /\ hist[p].raisedAt = "write" =>
                /\ result[p] \in {Returned(ErrorRecord(WriteError)),
                                  Raised(PrintError)}
                /\ IsPrefix(file.data, Dumps(frame[p].analysis_results))
                /\ file.data # Dumps(frame[p].analysis_results))

\* Every step of an invocation is taken sooner or later: the remote call
\* returns or raises, and nothing else blocks.
FairSpec == Spec /\ WF_vars(Step(1))

\* Under FairSpec an invocation that began reaches done.
Terminates == (pc[1] = "init") ~> (pc[1] = "done")

TypeOK ==
    /\ file.exists \in BOOLEAN
    /\ \A p \in Procs :
         pc[p] \in {"idle", "init", "call", "print", "open", "dump", "write",
                    "handler", "done"}
====
